---- MODULE Spec2Model ----
(***************************************************************************)
(* State-machine model of the TypingMind cloud backup core module          *)
(* (src/unnamed/part_000): configuration, the metadata caches, the daily   *)
(* scheduler, pushToCloud / pullFromCloud / determineAndPerformSync /      *)
(* performSync and window.CloudBackup.createSnapshot.                      *)
(*                                                                         *)
(* JavaScript is single threaded: a handler runs atomically up to its next *)
(* await on real I/O (a storage request or a WebCrypto call).  Every       *)
(* action below is one such run-to-suspension segment; the segments of     *)
(* different handlers interleave freely.                                   *)
(***************************************************************************)
EXTENDS Integers, FiniteSets, Sequences, TLC

----------------------------------------------------------------------------
(* Bounds of the model *)

MaxChats == 2        \* chat ids are 1..MaxChats
MaxDay == 1          \* the clock runs over the days 0..MaxDay
MaxEdits == 1        \* local edits made by the user in one behaviour
MaxForeign == 1      \* writes made to the bucket by other devices
MaxSaves == 1        \* settings saves after the first save
MaxLen == 2          \* payloads given to encryptData have at most MaxLen bytes
MaxOps == 3          \* calls of queueOperation

(* Program constants *)

HoursPerDay == 24
MinutesPerHour == 60
DefaultSyncHour == 9
DefaultSyncMinute == 0
NoDate == -1         \* config.lastSyncDate = "" (never synced by the scheduler)
SaltSize == 16       \* getRandomBytes(16)
IvSize == 12         \* getRandomBytes(12)
TagLength == 128     \* bits of the AES-GCM tag
Iterations == 100000 \* PBKDF2 iterations
FormatVersion == 1   \* header.version
LengthBytes == 4     \* the Uint32 in front of the header
ByteValues == 256
BitsPerByte == 8

ChatIds == 1..MaxChats
Fields == {"chats", "settings", "favorites", "folders"}
Keys == {"", "k1", "k2"}       \* encryption passwords; "" is the empty string
Modes == {"disabled", "backup", "sync"}

----------------------------------------------------------------------------
(* The clock.  now counts minutes since the epoch (UTC); tz is the offset  *)
(* of local time in hours.  Date.now() is now; toISOString().split('T')[0] *)
(* is the UTC date; getHours()/getMinutes() are local.                     *)

MinutesPerDay == HoursPerDay * MinutesPerHour
IsoDate(t) == t \div MinutesPerDay
LocalHours(t, z) == ((t \div MinutesPerHour) + z) % HoursPerDay
LocalMinutes(t) == t % MinutesPerHour
At(d, h, m) == d * MinutesPerDay + h * MinutesPerHour + m

\* the calendar day of the local time, the day getHours() belongs to
LocalDate(t, z) == (t + z * MinutesPerHour) \div MinutesPerDay

\* the time zones looked at: UTC and UTC-8
TzOffsets == {0, -8}

----------------------------------------------------------------------------
(* Data values *)

\* the object getApplicationData returns, or the data object of a backup;
\* has is the set of its properties that are present and truthy
AppData(has, chats, settings, favorites, folders, ts) ==
  [has |-> has, chats |-> chats, settings |-> settings,
   favorites |-> favorites, folders |-> folders, timestamp |-> ts]

NoApp == AppData({}, {}, 0, 0, 0, 0)

\* a parsed JSON document: {data: <AppData>, timestamp} (kind "app"),
\* {data: {data: <AppData>, timestamp: mts}, timestamp} (kind "meta"),
\* a document without data (kind "nodata"), null (kind "null"); bytes that
\* are not JSON have kind "garbage"
Json(kind, app, mts, ts, snap) ==
  [kind |-> kind, app |-> app, mts |-> mts, timestamp |-> ts, isSnapshot |-> snap]

NullJson == Json("null", NoApp, 0, 0, FALSE)
Garbage == Json("garbage", NoApp, 0, 0, FALSE)

\* localMetadata: null or {data: <AppData>, timestamp}
LocalMeta(app, ts) == [kind |-> "meta", data |-> app, timestamp |-> ts]
NullLocal == [kind |-> "null", data |-> NoApp, timestamp |-> 0]

\* bytes of an object: plain UTF-8 text of a document, or an envelope of it
\* encrypted under key
Blob(enc, key, json, version) ==
  [enc |-> enc, key |-> key, json |-> json, version |-> version]

\* object names
MetadataKey == [kind |-> "metadata", stamp |-> 0, ext |-> ".json"]
BackupKey(date, ext) == [kind |-> "backup", stamp |-> date, ext |-> ext]
SnapshotKey(ts, ext) == [kind |-> "snapshot", stamp |-> ts, ext |-> ext]

\* the names createSnapshot is called with
SnapNames == {"a", "b"}

\* the document of a snapshot: {data, timestamp, isSnapshot: true, snapshotName}
SnapshotJson(app, ts, name) ==
  [kind |-> "app", app |-> app, mts |-> 0, timestamp |-> ts, isSnapshot |-> TRUE,
   snapshotName |-> name]

\* user metadata of an object; timestamp -1 stands for a missing timestamp
ObjMeta(syncType, encrypted, ts) ==
  [syncType |-> syncType, encrypted |-> encrypted, timestamp |-> ts]
NoObjMeta == ObjMeta("", "", -1)

Object(blob, meta) == [data |-> blob, metadata |-> meta]

----------------------------------------------------------------------------
(* State *)

VARIABLES
  config,          \* the in-memory configuration object
  stored,          \* the configuration keys of the browser's localStorage
  syncIntervalId,  \* TRUE while the scheduler's interval timer is installed
  isRunning,       \* the re-entrancy flag of performSync
  localMetadata,   \* cache of the local metadata (NullLocal = null)
  cloudMetadata,   \* cache of the cloud metadata (NullJson = null)
  localStorage,    \* the application's dataset in localStorage
  bucket,          \* the object store: object name -> Object
  sync,            \* the performSync call in flight and its local variables
  snap,            \* the createSnapshot calls in flight, by name, and their local variables
  obs,             \* what the callers have observed (return values, triggers)
  used,            \* how many edits, foreign writes and saves have happened
  now,             \* the clock
  tz,              \* the offset of local time
  codec,           \* a payload taken through encryptData and decryptData
  operationState,  \* the operation queue, its drain flag and its completed-set
  lane             \* the executions in flight and the position of saveSettings

vars == <<config, stored, syncIntervalId, isRunning, localMetadata, cloudMetadata,
          localStorage, bucket, sync, snap, obs, used, now, tz, codec, operationState, lane>>

\* config as the module is loaded
DefaultConfig ==
  [syncMode |-> "disabled", syncHour |-> DefaultSyncHour, syncMinute |-> DefaultSyncMinute,
   projectId |-> "", bucketName |-> "", keyFilename |-> "",
   encryptionKey |-> "", encryptionEnabled |-> FALSE,
   lastSyncTime |-> 0, lastSyncDate |-> NoDate]

IdleSync ==
  [pc |-> "idle", caller |-> "none", dir |-> "none", via |-> "none",
   metaAbsent |-> FALSE, localData |-> NullLocal, dataToSync |-> NullJson,
   encryptionKey |-> "", uploadData |-> Blob(FALSE, "", NullJson, 0),
   key |-> MetadataKey, metadata |-> NoObjMeta]
\* pc: the await the call is suspended at; caller: "manual" or "tick";
\* dir: the transfer started ("push", "pull"); via: how it was selected
\* ("forced", "backup", "nometa", "decide"); metaAbsent: whether the object
\* typingmind-metadata.json was missing when the direction was selected;
\* key, metadata: syncKey and its metadata (push), latestBackup (pull);
\* uploadData: the bytes to upload (push), downloadResult.data (pull)

IdleSnap ==
  [pc |-> "idle", configured |-> FALSE, dataToSync |-> NullJson, fileExt |-> ".json",
   uploadData |-> Blob(FALSE, "", NullJson, 0), key |-> MetadataKey,
   metadata |-> NoObjMeta]

\* the program state as one record, for the operators that transform it
Cur ==
  [config |-> config, stored |-> stored, syncIntervalId |-> syncIntervalId,
   isRunning |-> isRunning, localMetadata |-> localMetadata,
   cloudMetadata |-> cloudMetadata, localStorage |-> localStorage,
   bucket |-> bucket, sync |-> sync, snap |-> snap, obs |-> obs]

Becomes(s) ==
  /\ config' = s.config
  /\ stored' = s.stored
  /\ syncIntervalId' = s.syncIntervalId
  /\ isRunning' = s.isRunning
  /\ localMetadata' = s.localMetadata
  /\ cloudMetadata' = s.cloudMetadata
  /\ localStorage' = s.localStorage
  /\ bucket' = s.bucket
  /\ sync' = s.sync
  /\ snap' = s.snap
  /\ obs' = s.obs

\* bucket with object k written
Put(b, k, o) == [x \in DOMAIN b \cup {k} |-> IF x = k THEN o ELSE b[x]]

----------------------------------------------------------------------------
(* Configuration *)

saveConfiguration(s) == [s EXCEPT !.stored = [saved |-> TRUE, cfg |-> s.config]]

isGcsConfigured(c) == c.projectId # "" /\ c.keyFilename # "" /\ c.bucketName # ""

\* initializeGCSClient returns a client, or throws when the configuration is incomplete
initializeGCSClient(c) == isGcsConfigured(c)

----------------------------------------------------------------------------
(* Local data and the metadata caches *)

getApplicationData(s, t) ==
  AppData(Fields, s.localStorage.chats, s.localStorage.settings,
          s.localStorage.favorites, s.localStorage.folders, t)

\* the state after getLocalMetadata; its result is the localMetadata of that state
getLocalMetadata(s, t) ==
  IF s.localMetadata.kind # "null" THEN s
  ELSE [s EXCEPT !.localMetadata = LocalMeta(getApplicationData(s, t), t)]

\* JSON.stringify then TextEncoder.encode, and TextDecoder.decode then JSON.parse
EncodeJson(json) == Blob(FALSE, "", json, 0)
CanParse(blob) == ~blob.enc /\ blob.json.kind # "garbage"

----------------------------------------------------------------------------
(* Encryption envelope: version is header.version, key the password the    *)
(* AES-GCM key was derived from.                                           *)

encryptData(json, password) == Blob(TRUE, password, json, 1)

\* decryptData succeeds on an envelope of a supported version whose tag
\* verifies under the key derived from password
CanDecrypt(blob, password) == blob.enc /\ blob.version <= 1 /\ blob.key = password

----------------------------------------------------------------------------
(* The encryption envelope, byte by byte.  A cell is one byte of an         *)
(* ArrayBuffer: t is what the byte belongs to, v its value, x whether the   *)
(* byte has been altered.  The header's JSON text is taken one property to  *)
(* a cell.  PBKDF2 and AES-GCM are ideal: a derived key is determined by     *)
(* (password, salt, iterations) and by nothing less, a ciphertext byte by   *)
(* (key, iv, position, plaintext byte), the tag by (key, iv, ciphertext).   *)

Cell(t, v) == [t |-> t, v |-> v, x |-> FALSE]

\* crypto.getRandomValues(new Uint8Array(length)); seed stands for the draw
getRandomBytes(length, seed) == [i \in 1..length |-> Cell("n", seed)]

\* deriveKey(password, salt, iterations)
deriveKey(password, salt, iterations) ==
  [password |-> password, salt |-> salt, iterations |-> iterations]

\* new Uint32Array([n]).buffer, little-endian
Uint32Bytes(n) ==
  [i \in 1..LengthBytes |->
     Cell("n", (n \div (IF i = 1 THEN 1 ELSE IF i = 2 THEN ByteValues
                        ELSE IF i = 3 THEN ByteValues * ByteValues
                        ELSE ByteValues * ByteValues * ByteValues)) % ByteValues)]

\* DataView.getUint32(0, true); an altered byte makes another number, whose
\* header text, shorter or longer than the one written, is not the JSON text
getUint32(bytes) ==
  IF \E i \in 1..LengthBytes : bytes[i].t # "n" \/ bytes[i].x
  THEN ByteValues * ByteValues * ByteValues
  ELSE bytes[1].v + ByteValues * bytes[2].v + ByteValues * ByteValues * bytes[3].v
       + ByteValues * ByteValues * ByteValues * bytes[4].v

\* the header object of lines 272-280, and JSON.stringify / TextEncoder of it
Header(ts) ==
  <<Cell("version", FormatVersion), Cell("algorithm", 0), Cell("keyDerivation", 0),
    Cell("iterations", Iterations), Cell("saltSize", SaltSize), Cell("ivSize", IvSize),
    Cell("timestamp", ts)>>

HeaderNames ==
  <<"version", "algorithm", "keyDerivation", "iterations", "saltSize", "ivSize",
    "timestamp">>

\* JSON.parse of the header text succeeds
ParsesHeader(bytes) ==
  /\ Len(bytes) = Len(HeaderNames)
  /\ \A i \in 1..Len(bytes) : bytes[i].t = HeaderNames[i] /\ ~bytes[i].x

\* crypto.subtle.encrypt with AES-GCM: the ciphertext followed by the tag
TagBytes == TagLength \div BitsPerByte

Sealed(key, iv, plain) ==
  LET body == [i \in 1..Len(plain) |-> Cell("ct", [key |-> key, iv |-> iv, i |-> i,
                                                     b |-> plain[i]])]
  IN  body \o [i \in 1..TagBytes |-> Cell("tag", [key |-> key, iv |-> iv, i |-> i,
                                                   body |-> body])]

\* a faulty variant of Verifies: the tag is not looked at
Verifies_Unchecked(key, iv, data) == Len(data) >= TagBytes

\* crypto.subtle.decrypt with AES-GCM: the tag verifies under key and iv
Verifies(key, iv, data) ==
  /\ Len(data) >= TagBytes
  /\ LET n == Len(data) - TagBytes
         body == SubSeq(data, 1, n)
     IN  /\ \A i \in 1..n : data[i].t = "ct" /\ ~data[i].x
         /\ \A i \in 1..TagBytes :
              /\ data[n + i].t = "tag" /\ ~data[n + i].x
              /\ data[n + i].v = [key |-> key, iv |-> iv, i |-> i, body |-> body]

\* a faulty variant of encryptBytes: the IV is written before the salt
encryptBytes_IvFirst(data, password, saltSeed, ivSeed, ts) ==
  LET salt == getRandomBytes(SaltSize, saltSeed)
      iv == getRandomBytes(IvSize, ivSeed)
      key == deriveKey(password, salt, Iterations)
      encryptedData == Sealed(key, iv, data)
      headerBytes == Header(ts)
  IN  Uint32Bytes(Len(headerBytes)) \o headerBytes \o iv \o salt \o encryptedData

\* encryptData(data, password) on the bytes of data, with the random draws
\* and Date.now() given: lines 254-300
encryptBytes(data, password, saltSeed, ivSeed, ts) ==
  LET salt == getRandomBytes(SaltSize, saltSeed)
      iv == getRandomBytes(IvSize, ivSeed)
      key == deriveKey(password, salt, Iterations)
      encryptedData == Sealed(key, iv, data)
      headerBytes == Header(ts)
  IN  Uint32Bytes(Len(headerBytes)) \o headerBytes \o salt \o iv \o encryptedData

\* what decryptData returns or throws
Decrypted(data) == [ok |-> TRUE, data |-> data, error |-> ""]
Throws(message) == [ok |-> FALSE, data |-> <<>>, error |-> message]
OperationError == "Decryption failed: Invalid password or corrupted data"
OtherError == "Failed to decrypt data"

\* a faulty variant of decryptBytes: the data follow the header at once
decryptBytes_NoSalt(encryptedData, password) ==
  IF Len(encryptedData) < LengthBytes THEN Throws(OtherError)
  ELSE LET headerLength == getUint32(encryptedData)
           data == SubSeq(encryptedData, LengthBytes + headerLength + 1,
                          Len(encryptedData))
       IN  IF LengthBytes + headerLength > Len(encryptedData) THEN Throws(OtherError)
           ELSE Decrypted([i \in 1..Len(data) |-> IF data[i].t = "ct" THEN data[i].v.b
                                                   ELSE 0])

\* a faulty variant of decryptBytes: header.version is not looked at
decryptBytes_AnyVersion(encryptedData, password) ==
  IF Len(encryptedData) < LengthBytes THEN Throws(OtherError)
  ELSE
  LET headerLength == getUint32(encryptedData)
      saltOffset == LengthBytes + headerLength
  IN  IF saltOffset > Len(encryptedData) THEN Throws(OtherError)
      ELSE
      LET header == SubSeq(encryptedData, LengthBytes + 1, saltOffset)
      IN  IF ~ParsesHeader(header) THEN Throws(OtherError)
          ELSE
          LET ivOffset == saltOffset + header[5].v
              dataOffset == ivOffset + header[6].v
          IN  IF dataOffset > Len(encryptedData) THEN Throws(OtherError)
              ELSE
              LET salt == SubSeq(encryptedData, saltOffset + 1, ivOffset)
                  iv == SubSeq(encryptedData, ivOffset + 1, dataOffset)
                  data == SubSeq(encryptedData, dataOffset + 1, Len(encryptedData))
                  key == deriveKey(password, salt, header[4].v)
              IN  IF Verifies(key, iv, data)
                  THEN Decrypted([i \in 1..(Len(data) - TagBytes) |-> data[i].v.b])
                  ELSE Throws(OperationError)

\* decryptData(encryptedData, password): lines 310-349
decryptBytes(encryptedData, password) ==
  IF Len(encryptedData) < LengthBytes THEN Throws(OtherError)
  ELSE
  LET headerLength == getUint32(encryptedData)
      saltOffset == LengthBytes + headerLength
  IN  IF saltOffset > Len(encryptedData) THEN Throws(OtherError)
      ELSE
      LET header == SubSeq(encryptedData, LengthBytes + 1, saltOffset)
      IN  IF ~ParsesHeader(header) THEN Throws(OtherError)
          ELSE IF header[1].v > FormatVersion THEN Throws(OtherError)
          ELSE
          LET ivOffset == saltOffset + header[5].v
              dataOffset == ivOffset + header[6].v
          IN  IF dataOffset > Len(encryptedData) THEN Throws(OtherError)
              ELSE
              LET salt == SubSeq(encryptedData, saltOffset + 1, ivOffset)
                  iv == SubSeq(encryptedData, ivOffset + 1, dataOffset)
                  data == SubSeq(encryptedData, dataOffset + 1, Len(encryptedData))
                  key == deriveKey(password, salt, header[4].v)
              IN  IF Verifies(key, iv, data)
                  THEN Decrypted([i \in 1..(Len(data) - TagBytes) |-> data[i].v.b])
                  ELSE Throws(OperationError)

\* codec: nothing yet, a payload and a password, the envelope encryptData
\* made of them, or what decryptData made of the envelope; tamper and flipped:
\* what has happened to the stored envelope, and at which byte
NoCodec ==
  [pc |-> "none", data |-> <<>>, password |-> "", envelope |-> <<>>, flipped |-> 0,
   tamper |-> "none", opener |-> "", result |-> Throws("")]

----------------------------------------------------------------------------
(* The operation queue of the queued variant.  operationState holds the     *)
(* fields of the object that saveSettings rebuilds; an operation stays in   *)
(* operationQueue, at its head, while it runs.  lane is the rest: the       *)
(* syncMode of this variant, where saveSettings stands, the operation the   *)
(* drain loop is running, the executions a reset of operationState left     *)
(* behind, and counts of what has happened.                                 *)

OpNames == {"daily-sync", "manual-sync", "manual-backup", "force-initial-sync"}

FreshOperationState ==
  [operationQueue |-> <<>>, isProcessingQueue |-> FALSE, completedOperations |-> {}]

IdleLane(mode) ==
  [mode |-> mode, settings |-> "idle", running |-> "",
   orphans |-> [n \in OpNames |-> 0], started |-> [n \in OpNames |-> 0],
   calls |-> 0, saves |-> 0, failed |-> FALSE]

\* name is pending or running, as operationState knows it
Queued(os, name) == \E i \in 1..Len(os.operationQueue) : os.operationQueue[i] = name

\* queueOperation(name, action): dedup by name, append, start the drain loop
\* unless one is going
queueOperation(os, name) ==
  IF Queued(os, name) THEN os
  ELSE [os EXCEPT !.operationQueue = Append(@, name), !.isProcessingQueue = TRUE]

\* what a reset of the queue does to the operation in flight: it goes on,
\* known to no queue
Orphaned(l) ==
  IF l.running = "" THEN l
  ELSE [l EXCEPT !.running = "", !.orphans[l.running] = @ + 1]

----------------------------------------------------------------------------
(* performSync: return, catch and finally; the tick's continuation *)

\* the scheduler's callback after "await performSync()"
TickContinuation(s, t) ==
  saveConfiguration([s EXCEPT !.config.lastSyncDate = IsoDate(t)])

\* a faulty variant of Return: the call stamps and reports success whatever
\* the transfer did
Return_AlwaysTrue(s, ok, t) ==
  LET s1 == saveConfiguration([s EXCEPT !.config.lastSyncTime = t])
      s2 == [s1 EXCEPT !.isRunning = FALSE, !.sync = IdleSync, !.obs.ret = "true"]
  IN  IF s.sync.caller = "tick" THEN TickContinuation(s2, t) ELSE s2

\* a faulty variant of Return: isRunning is cleared on the way out of the try
\* block only, not in a finally block
Return_NoFinally(s, ok, t) ==
  LET s1 == IF ok THEN saveConfiguration([s EXCEPT !.config.lastSyncTime = t]) ELSE s
      s2 == [s1 EXCEPT !.isRunning = ~ok, !.sync = IdleSync,
                       !.obs.ret = IF ok THEN "true" ELSE "false"]
  IN  IF s.sync.caller = "tick" THEN TickContinuation(s2, t) ELSE s2

\* performSync returns ok (TRUE after line 715, FALSE from the catch), the
\* finally block clears isRunning, and the awaiting caller continues
Return(s, ok, t) ==
  LET s1 == IF ok THEN saveConfiguration([s EXCEPT !.config.lastSyncTime = t]) ELSE s
      s2 == [s1 EXCEPT !.isRunning = FALSE, !.sync = IdleSync,
                       !.obs.ret = IF ok THEN "true" ELSE "false"]
  IN  IF s.sync.caller = "tick" THEN TickContinuation(s2, t) ELSE s2

----------------------------------------------------------------------------
(* pushToCloud *)

BoolString(b) == IF b THEN "true" ELSE "false"

\* a faulty variant of pushUpload: the object is named by the time, not the date
pushUpload_TimeKeyed(s, uploadData, t) ==
  LET fileExt == IF s.config.encryptionEnabled THEN ".dat" ELSE ".json"
      md == ObjMeta("regular", BoolString(s.config.encryptionEnabled), t)
  IN  IF ~initializeGCSClient(s.config) THEN Return(s, FALSE, t)
      ELSE [s EXCEPT !.sync.pc = "upload", !.sync.uploadData = uploadData,
                     !.sync.key = BackupKey(t, fileExt), !.sync.metadata = md]

\* lines 544-553: the object name and metadata, then uploadToGCS up to its await
pushUpload(s, uploadData, t) ==
  LET fileExt == IF s.config.encryptionEnabled THEN ".dat" ELSE ".json"
      syncKey == BackupKey(IsoDate(t), fileExt)
      md == ObjMeta("regular", BoolString(s.config.encryptionEnabled), t)
  IN  IF ~initializeGCSClient(s.config) THEN Return(s, FALSE, t)
      ELSE [s EXCEPT !.sync.pc = "upload", !.sync.uploadData = uploadData,
                     !.sync.key = syncKey, !.sync.metadata = md]

\* lines 518-542: localData is performSync's localMetadata object, which is
\* truthy, so appData is that object and not a fresh read of the dataset
pushToCloud(s, via, t) ==
  LET appData == s.sync.localData
      dataToSync == Json("meta", appData.data, appData.timestamp, t, FALSE)
      s1 == [s EXCEPT !.sync.dir = "push", !.sync.via = via,
                      !.sync.dataToSync = dataToSync]
  IN  IF s.config.encryptionEnabled
      THEN IF s.config.encryptionKey = "" THEN Return(s1, FALSE, t)
           ELSE [s1 EXCEPT !.sync.pc = "encrypt",
                           !.sync.encryptionKey = s.config.encryptionKey]
      ELSE pushUpload(s1, EncodeJson(dataToSync), t)

\* a faulty variant of saveCloudMetadata: the cache is set before the upload
saveCloudMetadata_CacheFirst(s, t) ==
  IF ~initializeGCSClient(s.config) THEN Return(s, FALSE, t)
  ELSE [s EXCEPT !.sync.pc = "metaUpload", !.sync.metadata = ObjMeta("", "", t),
                 !.cloudMetadata = s.sync.dataToSync]

\* saveCloudMetadata up to the await of its upload
saveCloudMetadata(s, t) ==
  IF ~initializeGCSClient(s.config) THEN Return(s, FALSE, t)
  ELSE [s EXCEPT !.sync.pc = "metaUpload", !.sync.metadata = ObjMeta("", "", t)]

----------------------------------------------------------------------------
(* pullFromCloud *)

\* pullFromCloud up to the await in listGCSObjects
pullFromCloud(s, via, t) ==
  LET s1 == [s EXCEPT !.sync.dir = "pull", !.sync.via = via]
  IN  IF ~initializeGCSClient(s.config) THEN Return(s1, FALSE, t)
      ELSE [s1 EXCEPT !.sync.pc = "list"]

\* parseInt(metadata.timestamp), 0 when the timestamp is missing
TimeOf(md) == IF md.timestamp < 0 THEN 0 ELSE md.timestamp

\* the order in which the store lists object names: by name, so by date and
\* then ".dat" before ".json"
ListedBefore(a, b) ==
  \/ a.stamp < b.stamp
  \/ a.stamp = b.stamp /\ a.ext = ".dat" /\ b.ext = ".json"

\* a faulty variant of latestBackup: the first file of the listing
latestBackup_FirstListed(files) ==
  CHOOSE k \in DOMAIN files : \A j \in DOMAIN files \ {k} : ListedBefore(k, j)

\* files[0] after the stable sort by descending timestamp (lines 578-584);
\* files maps each listed name to the metadata the listing got for it
latestBackup(files) ==
  CHOOSE k \in DOMAIN files :
    \A j \in DOMAIN files \ {k} :
      \/ TimeOf(files[k]) > TimeOf(files[j])
      \/ TimeOf(files[k]) = TimeOf(files[j]) /\ ListedBefore(k, j)

\* the localStorage writes restoreApplicationData makes, in order
RestoreOrder == <<"chats", "settings", "favorites", "folders">>
Writes(data) == SelectSeq(RestoreOrder, LAMBDA f : f \in data.has)

\* localStorage after the first n writes of restoreApplicationData(data)
Written(ls, data, n) ==
  LET done == {Writes(data)[i] : i \in 1..n}
  IN  [f \in Fields |-> IF f \in done THEN data[f] ELSE ls[f]]

\* restoreApplicationData(data), whose localStorage.setItem number failAt + 1
\* throws (failAt = 4: none throws): the state, and whether it returned
restoreApplicationData(s, data, failAt, t) ==
  IF "chats" \notin data.has THEN [state |-> s, ok |-> FALSE]
  ELSE IF failAt < Len(Writes(data))
       THEN [state |-> [s EXCEPT !.localStorage = Written(s.localStorage, data, failAt)],
             ok |-> FALSE]
       ELSE [state |-> [s EXCEPT !.localStorage =
                                   Written(s.localStorage, data, Len(Writes(data))),
                                 !.localMetadata = LocalMeta(data, t)],
             ok |-> TRUE]

\* lines 610-622: jsonString is the text of blob
pullRestore(s, blob, failAt, t) ==
  IF ~CanParse(blob) THEN Return(s, FALSE, t)
  ELSE LET syncData == blob.json
       IN  IF syncData.kind \in {"nodata", "null"} THEN Return(s, FALSE, t)
           ELSE LET data == IF syncData.kind = "app" THEN syncData.app ELSE NoApp
                    r == restoreApplicationData(s, data, failAt, t)
                IN  IF ~r.ok THEN Return(r.state, FALSE, t)
                    ELSE Return([r.state EXCEPT !.cloudMetadata = syncData], TRUE, t)

----------------------------------------------------------------------------
(* determineAndPerformSync *)

\* a faulty variant of cloudItemCount: the chats of a document that
\* performSync pushed are counted too
cloudItemCount_Nested(cloudData) ==
  IF cloudData.kind \in {"app", "meta"} /\ "chats" \in cloudData.app.has
  THEN Cardinality(cloudData.app.chats) ELSE 0

cloudItemCount(cloudData) ==
  IF cloudData.kind = "app" /\ "chats" \in cloudData.app.has
  THEN Cardinality(cloudData.app.chats) ELSE 0

localItemCount(localData) ==
  IF "chats" \in localData.data.has THEN Cardinality(localData.data.chats) ELSE 0

\* a faulty variant of SyncDirection: the newer side wins whatever it holds
SyncDirection_NewerWins(localData, cloudData) ==
  IF cloudData.timestamp > localData.timestamp THEN "pull" ELSE "push"

\* lines 645-674: the direction chosen from the two metadata objects
SyncDirection(localData, cloudData) ==
  LET cloudLastSync == cloudData.timestamp
      localLastSync == localData.timestamp
  IN  IF cloudLastSync > localLastSync /\ cloudItemCount(cloudData) > 0 THEN "pull"
      ELSE IF localLastSync > cloudLastSync /\ localItemCount(localData) > 0 THEN "push"
      ELSE IF cloudItemCount(cloudData) > localItemCount(localData) THEN "pull"
      ELSE "push"

\* lines 645-674 with cloudData = s.cloudMetadata
compareAndSync(s, t) ==
  IF s.cloudMetadata.kind = "null" THEN Return(s, FALSE, t)   \* TypeError on null
  ELSE IF SyncDirection(s.sync.localData, s.cloudMetadata) = "pull"
       THEN pullFromCloud(s, "decide", t)
       ELSE pushToCloud(s, "decide", t)

\* a faulty variant of noCloudMetadata: restore what the bucket holds
noCloudMetadata_Pulls(s, t) == pullFromCloud(s, "nometa", t)

\* the catch of lines 640-643
noCloudMetadata(s, t) == pushToCloud(s, "nometa", t)

\* a faulty variant of determineAndPerformSync: backup mode is not looked at
determineAndPerformSync_AnyMode(s, t) ==
  LET s1 == [s EXCEPT !.sync.metaAbsent = MetadataKey \notin DOMAIN s.bucket]
  IN  IF s.cloudMetadata.kind # "null" THEN compareAndSync(s1, t)
      ELSE IF ~initializeGCSClient(s.config) THEN noCloudMetadata(s1, t)
      ELSE [s1 EXCEPT !.sync.pc = "metaDownload"]

\* determineAndPerformSync up to its first await
determineAndPerformSync(s, t) ==
  IF s.config.syncMode = "backup" THEN pushToCloud(s, "backup", t)
  ELSE LET s1 == [s EXCEPT !.sync.metaAbsent = MetadataKey \notin DOMAIN s.bucket]
       IN  IF s.cloudMetadata.kind # "null" THEN compareAndSync(s1, t)
           ELSE IF ~initializeGCSClient(s.config) THEN noCloudMetadata(s1, t)
           ELSE [s1 EXCEPT !.sync.pc = "metaDownload"]

----------------------------------------------------------------------------
(* performSync *)

\* a faulty variant of Rejected: disabled mode is not looked at
Rejected_IgnoresMode(s, force) == s.isRunning \/ ~isGcsConfigured(s.config)

\* the guards of lines 683-695: TRUE when the call returns false at once
Rejected(s, force) ==
  \/ s.isRunning
  \/ ~isGcsConfigured(s.config)
  \/ s.config.syncMode = "disabled" /\ ~force

\* performSync(options) called by caller, up to its first await on I/O
performSync(s, caller, force, direction, t) ==
  IF Rejected(s, force)
  THEN LET s1 == [s EXCEPT !.obs.ret = "false"]
       IN  IF caller = "tick" THEN TickContinuation(s1, t) ELSE s1
  ELSE LET s1 == getLocalMetadata([s EXCEPT !.isRunning = TRUE], t)
           s2 == [s1 EXCEPT !.sync = [IdleSync EXCEPT !.caller = caller,
                                                      !.localData = s1.localMetadata]]
       IN  IF direction = "push" THEN pushToCloud(s2, "forced", t)
           ELSE IF direction = "pull" THEN pullFromCloud(s2, "forced", t)
           ELSE determineAndPerformSync(s2, t)

----------------------------------------------------------------------------
(* The daily scheduler *)

isDailySyncTime(c, t, z) ==
  /\ c.lastSyncDate # IsoDate(t)
  /\ \/ LocalHours(t, z) > c.syncHour
     \/ LocalHours(t, z) = c.syncHour /\ LocalMinutes(t) >= c.syncMinute

startSyncInterval(s) ==
  [s EXCEPT !.syncIntervalId = (s.config.syncMode # "disabled")]

stopSyncInterval(s) == [s EXCEPT !.syncIntervalId = FALSE]

\* the interval callback finds its guard true and calls performSync()
TickFires(s, t, z) == s.syncIntervalId /\ ~s.isRunning /\ isDailySyncTime(s.config, t, z)

\* the callback's call of performSync(); obs.trigs counts these calls by the
\* local calendar day they are made on
tick(s, t, z) ==
  performSync([s EXCEPT !.obs.trigs[LocalDate(t, z)] = @ + 1], "tick", FALSE, "none", t)

----------------------------------------------------------------------------
(* The settings form's Save handler and the encryption toggle *)

\* parseInt(value) || dflt
ParseOr(n, dflt) == IF n = 0 THEN dflt ELSE n

\* form: the values of the form's fields when Save is clicked
saveSettings(s, form) ==
  LET c1 == [s.config EXCEPT !.projectId = form.projectId,
                             !.bucketName = form.bucketName,
                             !.keyFilename = form.keyFilename,
                             !.syncHour = ParseOr(form.syncHour, DefaultSyncHour),
                             !.syncMinute = ParseOr(form.syncMinute, DefaultSyncMinute),
                             !.syncMode = form.syncMode,
                             !.encryptionEnabled = form.encryptionEnabled]
      c2 == IF c1.encryptionEnabled
            THEN [c1 EXCEPT !.encryptionKey = form.encryptionKey] ELSE c1
      s1 == [s EXCEPT !.config = c2]
  IN  IF c2.encryptionEnabled /\ c2.encryptionKey = ""
      THEN s1                                  \* alert, return
      ELSE LET s2 == saveConfiguration(s1)
           IN  IF c2.syncMode # "disabled" THEN startSyncInterval(s2)
               ELSE stopSyncInterval(s2)

----------------------------------------------------------------------------
(* window.CloudBackup.createSnapshot *)

\* createSnapshot fails: its promise rejects
snapFails(s, name) == [s EXCEPT !.snap[name] = IdleSnap, !.obs.snapRet = "error"]

\* lines 1119-1128: the object name and metadata, then uploadToGCS up to its await
snapUpload(s, name, uploadData, t) ==
  LET snapshotKey == SnapshotKey(t, s.snap[name].fileExt)
      md == ObjMeta("snapshot", BoolString(s.config.encryptionEnabled), t)
  IN  IF ~initializeGCSClient(s.config) THEN snapFails(s, name)
      ELSE [s EXCEPT !.snap[name].pc = "upload", !.snap[name].uploadData = uploadData,
                     !.snap[name].key = snapshotKey, !.snap[name].metadata = md]

\* createSnapshot up to its first await on I/O
createSnapshot(s, name, t) ==
  LET appData == getApplicationData(s, t)
      dataToSync == SnapshotJson(appData, t, name)
      fileExt == IF s.config.encryptionEnabled THEN ".dat" ELSE ".json"
      s1 == [s EXCEPT !.snap[name] =
                        [IdleSnap EXCEPT !.configured = isGcsConfigured(s.config),
                                         !.dataToSync = dataToSync,
                                         !.fileExt = fileExt]]
  IN  IF s.config.encryptionEnabled
      THEN IF s.config.encryptionKey = "" THEN snapFails(s1, name)
           ELSE [s1 EXCEPT !.snap[name].pc = "encrypt",
                           !.snap[name].uploadData =
                              encryptData(dataToSync, s.config.encryptionKey)]
      ELSE snapUpload(s1, name, EncodeJson(dataToSync), t)

----------------------------------------------------------------------------
(* Actions: the entry points *)

Env == <<used, now, tz, codec, operationState, lane>>

\* a caller (the Sync Now button, or the host through window.CloudBackup)
\* calls performSync(options)
PerformSync(force, direction) ==
  /\ Becomes(performSync(Cur, "manual", force, direction, now))
  /\ UNCHANGED Env

\* the interval callback runs and its guard holds
Tick ==
  /\ TickFires(Cur, now, tz)
  /\ Becomes(tick(Cur, now, tz))
  /\ UNCHANGED Env

\* the clock has moved on since every snapshot object in the bucket was
\* named: an upload that has completed took longer than the clock's resolution
ClockPassed == \A k \in DOMAIN bucket : k.kind = "snapshot" => k.stamp < now

\* a caller calls createSnapshot(name); the clock is read for the object's
\* name in this step unless the call has to encrypt first
CreateSnapshot(name) ==
  /\ snap[name].pc = "idle"
  /\ config.encryptionEnabled \/ ClockPassed
  /\ Becomes(createSnapshot(Cur, name, now))
  /\ UNCHANGED Env

SaveSettings(form) ==
  /\ used.saves < MaxSaves
  /\ Becomes(saveSettings(Cur, form))
  /\ used' = [used EXCEPT !.saves = @ + 1]
  /\ UNCHANGED <<now, tz, codec, operationState, lane>>

\* the click listener of #encryption-toggle: the checkbox now shows checked
ToggleEncryption(checked) ==
  /\ used.saves < MaxSaves
  /\ Becomes([Cur EXCEPT !.config.encryptionEnabled = checked])
  /\ used' = [used EXCEPT !.saves = @ + 1]
  /\ UNCHANGED <<now, tz, codec, operationState, lane>>

----------------------------------------------------------------------------
(* Actions: an awaited request completes (ok) or fails *)

\* downloadFromGCS('typingmind-metadata.json') in getCloudMetadata
MetaDownloadDone(ok) ==
  /\ sync.pc = "metaDownload"
  /\ LET s1 == [Cur EXCEPT !.sync.metaAbsent = MetadataKey \notin DOMAIN bucket]
     IN  IF ok /\ MetadataKey \in DOMAIN bucket /\ CanParse(bucket[MetadataKey].data)
         THEN Becomes(compareAndSync(
                [s1 EXCEPT !.cloudMetadata = bucket[MetadataKey].data.json], now))
         ELSE Becomes(noCloudMetadata(s1, now))
  /\ UNCHANGED Env

\* encryptData in pushToCloud
EncryptDone(ok) ==
  /\ sync.pc = "encrypt"
  /\ IF ok
     THEN Becomes(pushUpload(Cur, encryptData(sync.dataToSync, sync.encryptionKey), now))
     ELSE Becomes(Return(Cur, FALSE, now))
  /\ UNCHANGED Env

\* bucket.upload of the backup object in pushToCloud
UploadDone(ok) ==
  /\ sync.pc = "upload"
  /\ IF ok
     THEN Becomes(saveCloudMetadata(
            [Cur EXCEPT !.bucket = Put(bucket, sync.key,
                                       Object(sync.uploadData, sync.metadata))], now))
     ELSE Becomes(Return(Cur, FALSE, now))
  /\ UNCHANGED Env

\* bucket.upload of typingmind-metadata.json in saveCloudMetadata
MetaUploadDone(ok) ==
  /\ sync.pc = "metaUpload"
  /\ IF ok
     THEN Becomes(Return(
            [Cur EXCEPT !.bucket = Put(bucket, MetadataKey,
                                       Object(EncodeJson(sync.dataToSync), sync.metadata)),
                        !.cloudMetadata = sync.dataToSync], TRUE, now))
     ELSE Becomes(Return(Cur, FALSE, now))
  /\ UNCHANGED Env

\* the metadata listGCSObjects gets for the listed names; unreadable are the
\* files whose getMetadata failed
Listing(unreadable) ==
  LET names == {k \in DOMAIN bucket : k.kind = "backup"}
  IN  [k \in names |-> IF k \in unreadable THEN NoObjMeta ELSE bucket[k].metadata]

\* lines 587-608 once the download is over: decode or start to decrypt
downloaded(s, blob, failAt, t) ==
  LET latest == s.sync
      isEncrypted == latest.metadata.encrypted = "true" \/ latest.key.ext = ".dat"
  IN  IF isEncrypted
      THEN IF s.config.encryptionKey = "" THEN Return(s, FALSE, t)
           ELSE [s EXCEPT !.sync.pc = "decrypt", !.sync.uploadData = blob,
                          !.sync.encryptionKey = s.config.encryptionKey]
      ELSE pullRestore(s, blob, failAt, t)

\* listGCSObjects('typingmind-backup-') in pullFromCloud
ListDone(ok, unreadable) ==
  /\ sync.pc = "list"
  /\ LET files == Listing(unreadable)
     IN  IF ~ok \/ DOMAIN files = {} THEN Becomes(Return(Cur, FALSE, now))
         ELSE IF ~initializeGCSClient(config) THEN Becomes(Return(Cur, FALSE, now))
         ELSE Becomes([Cur EXCEPT !.sync.pc = "download",
                                  !.sync.key = latestBackup(files),
                                  !.sync.metadata = files[latestBackup(files)]])
  /\ UNCHANGED Env

\* downloadFromGCS(latestBackup.Key) in pullFromCloud
DownloadDone(ok, failAt) ==
  /\ sync.pc = "download"
  /\ IF ok /\ sync.key \in DOMAIN bucket
     THEN Becomes(downloaded(Cur, bucket[sync.key].data, failAt, now))
     ELSE Becomes(Return(Cur, FALSE, now))
  /\ UNCHANGED Env

\* decryptData in pullFromCloud
DecryptDone(failAt) ==
  /\ sync.pc = "decrypt"
  /\ IF CanDecrypt(sync.uploadData, sync.encryptionKey)
     THEN Becomes(pullRestore(Cur, EncodeJson(sync.uploadData.json), failAt, now))
     ELSE Becomes(Return(Cur, FALSE, now))
  /\ UNCHANGED Env

\* encryptData in createSnapshot
SnapEncryptDone(name, ok) ==
  /\ snap[name].pc = "encrypt"
  /\ ok => ClockPassed
  /\ IF ok THEN Becomes(snapUpload(Cur, name, snap[name].uploadData, now))
     ELSE Becomes(snapFails(Cur, name))
  /\ UNCHANGED Env

\* bucket.upload in createSnapshot
SnapUploadDone(name, ok) ==
  /\ snap[name].pc = "upload"
  /\ IF ok
     THEN Becomes([Cur EXCEPT !.bucket = Put(bucket, snap[name].key,
                                             Object(snap[name].uploadData,
                                                    snap[name].metadata)),
                              !.snap[name] = IdleSnap, !.obs.snapRet = "ok"])
     ELSE Becomes(snapFails(Cur, name))
  /\ UNCHANGED Env

----------------------------------------------------------------------------
(* Actions: the environment *)

\* the application changes its dataset in localStorage
Edits(ls) ==
  {[ls EXCEPT !.chats = @ \cup {c}] : c \in ChatIds \ ls.chats}
  \cup {[ls EXCEPT !.chats = @ \ {c}] : c \in ls.chats}
  \cup {[ls EXCEPT ![f] = 1 - @] : f \in Fields \ {"chats"}}

EditLocal(ls) ==
  /\ used.edits < MaxEdits
  /\ ls \in Edits(localStorage)
  /\ localStorage' = ls
  /\ used' = [used EXCEPT !.edits = @ + 1]
  /\ UNCHANGED <<config, stored, syncIntervalId, isRunning, localMetadata,
                 cloudMetadata, bucket, sync, snap, obs, now, tz, codec, operationState, lane>>

\* datasets other devices keep
FullData(t) == AppData(Fields, ChatIds, 1, 1, 1, t)
ChatsOnly(t) == AppData({"chats"}, {1}, 0, 0, 0, t)
NoChats(t) == AppData({"chats", "settings"}, {}, 1, 0, 0, t)
SettingsOnly(t) == AppData({"settings"}, {}, 1, 0, 0, t)

\* what another device uploads at time t: a backup document, the password
\* it is encrypted under ("": stored as plain JSON), and whether the device also
\* wrote typingmind-metadata.json
Upload(json, key, metadata) == [json |-> json, key |-> key, metadata |-> metadata]

\* backups in the documented format with more, as many and fewer chats, one
\* whose metadata object is missing, and one written by performSync of
\* another copy of this program
PlainWrites(t) ==
  {Upload(Json("app", d, 0, t, FALSE), "", TRUE) :
      d \in {FullData(t), ChatsOnly(t), NoChats(t)}}
  \cup {Upload(Json("app", FullData(t), 0, t, FALSE), "", FALSE),
        Upload(Json("meta", FullData(t), t, t, FALSE), "", TRUE)}

\* encrypted backups, and backups pullFromCloud cannot restore
OtherWrites(t) ==
  {Upload(Json("app", FullData(t), 0, t, FALSE), k, TRUE) : k \in {"k1", "k2"}}
  \cup {Upload(Json("app", SettingsOnly(t), 0, t, FALSE), "", TRUE),
        Upload(Json("nodata", NoApp, 0, t, FALSE), "", TRUE),
        Upload(Garbage, "", TRUE)}

ForeignWrite(w) ==
  /\ used.foreign < MaxForeign
  /\ LET enc == w.key # ""
         blob == IF enc THEN encryptData(w.json, w.key) ELSE EncodeJson(w.json)
         k == BackupKey(IsoDate(now), IF enc THEN ".dat" ELSE ".json")
         b1 == Put(bucket, k, Object(blob, ObjMeta("regular", BoolString(enc), now)))
     IN  bucket' = IF w.metadata
                   THEN Put(b1, MetadataKey, Object(EncodeJson(w.json), ObjMeta("", "", now)))
                   ELSE b1
  /\ used' = [used EXCEPT !.foreign = @ + 1]
  /\ UNCHANGED <<config, stored, syncIntervalId, isRunning, localMetadata,
                 cloudMetadata, localStorage, sync, snap, obs, now, tz, codec, operationState, lane>>

\* time passes: the clock reaches the next of the instants looked at
Advance(instants) ==
  /\ \E t \in instants : t > now
  /\ now' = CHOOSE t \in instants : t > now /\ \A u \in instants : u > now => t <= u
  /\ UNCHANGED <<config, stored, syncIntervalId, isRunning, localMetadata,
                 cloudMetadata, localStorage, bucket, sync, snap, obs, used, tz, codec, operationState, lane>>

\* an awaited request of the performSync call in flight completes: the
\* requests of a push without encryption
PushStep ==
  \/ \E ok \in BOOLEAN : MetaDownloadDone(ok)
  \/ \E ok \in BOOLEAN : UploadDone(ok)
  \/ \E ok \in BOOLEAN : MetaUploadDone(ok)

\* the requests of a sync without encryption
PlainStep ==
  \/ PushStep
  \/ \E ok \in BOOLEAN, unreadable \in SUBSET {k \in DOMAIN bucket : k.kind = "backup"} :
       ListDone(ok, unreadable)
  \/ \E ok \in BOOLEAN, failAt \in 0..4 : DownloadDone(ok, failAt)

SyncStep ==
  \/ PlainStep
  \/ \E ok \in BOOLEAN : EncryptDone(ok)
  \/ \E failAt \in 0..4 : DecryptDone(failAt)

\* an awaited request of a createSnapshot call in flight completes
SnapStep(names) ==
  \/ \E name \in names, ok \in BOOLEAN : SnapEncryptDone(name, ok)
  \/ \E name \in names, ok \in BOOLEAN : SnapUploadDone(name, ok)

----------------------------------------------------------------------------
(* Specifications *)

Credentials ==
  {[projectId |-> "p", bucketName |-> "b", keyFilename |-> "k"],
   [projectId |-> "", bucketName |-> "b", keyFilename |-> "k"],
   [projectId |-> "p", bucketName |-> "", keyFilename |-> "k"],
   [projectId |-> "p", bucketName |-> "b", keyFilename |-> ""]}

LocalInits ==
  {[chats |-> 1..n, settings |-> 0, favorites |-> 0, folders |-> 0] : n \in 0..MaxChats}

\* the module as loaded, with the dataset ls in localStorage
Loaded(ls) ==
  [config |-> DefaultConfig, stored |-> [saved |-> FALSE, cfg |-> DefaultConfig],
   syncIntervalId |-> FALSE, isRunning |-> FALSE, localMetadata |-> NullLocal,
   cloudMetadata |-> NullJson, localStorage |-> ls,
   bucket |-> [k \in {} |-> Object(EncodeJson(NullJson), NoObjMeta)],
   sync |-> IdleSync, snap |-> [name \in SnapNames |-> IdleSnap],
   obs |-> [ret |-> "none", trigs |-> [d \in 0..MaxDay |-> 0], snapRet |-> "none"]]

\* loadConfiguration: config is what an earlier session stored
loadConfiguration(s, cfg) == [s EXCEPT !.config = cfg, !.stored = [saved |-> TRUE, cfg |-> cfg]]

Starts(s) ==
  /\ config = s.config
  /\ stored = s.stored
  /\ syncIntervalId = s.syncIntervalId
  /\ isRunning = s.isRunning
  /\ localMetadata = s.localMetadata
  /\ cloudMetadata = s.cloudMetadata
  /\ localStorage = s.localStorage
  /\ bucket = s.bucket
  /\ sync = s.sync
  /\ snap = s.snap
  /\ obs = s.obs

Complete == [projectId |-> "p", bucketName |-> "b", keyFilename |-> "k"]

\* a configuration an earlier session stored
StoredConfig(c, mode, e, k) ==
  [DefaultConfig EXCEPT !.projectId = c.projectId, !.bucketName = c.bucketName,
                        !.keyFilename = c.keyFilename, !.syncMode = mode,
                        !.encryptionEnabled = e, !.encryptionKey = k]

NoneUsed == [edits |-> 0, foreign |-> 0, saves |-> 0]

\* the form with complete credentials, the default sync time, no encryption
Form(mode) ==
  [projectId |-> Complete.projectId, bucketName |-> Complete.bucketName,
   keyFilename |-> Complete.keyFilename, syncHour |-> DefaultSyncHour,
   syncMinute |-> DefaultSyncMinute, syncMode |-> mode,
   encryptionEnabled |-> FALSE, encryptionKey |-> ""]

\* Spec: sessions that sync, by hand and by the scheduler, in sync or backup
\* mode without encryption, while another device writes to the bucket.  A
\* session starts when the settings have been saved for the first time.
Instants == {At(0, 8, 0), At(0, 9, 0)}

Init ==
  /\ \E ls \in LocalInits, mode \in {"sync", "backup"} :
       Starts(saveSettings(Loaded(ls), Form(mode)))
  /\ used = NoneUsed
  /\ now = At(0, 8, 0)
  /\ tz = 0
  /\ codec = NoCodec
  /\ operationState = FreshOperationState
  /\ lane = IdleLane("sync")

Next ==
  \/ \E force \in BOOLEAN, direction \in {"none", "push", "pull"} :
       PerformSync(force, direction)
  \/ Tick
  \/ PlainStep
  \/ \E w \in PlainWrites(now) : ForeignWrite(w)
  \/ Advance(Instants)

Spec == Init /\ [][Next]_vars

\* SpecData: sessions that sync and pull, with and without encryption, while
\* the user edits the dataset and another device writes backups of every kind.
InitData ==
  /\ \E e \in BOOLEAN, k \in {"", "k1"} :
       Starts(loadConfiguration(Loaded([chats |-> {1}, settings |-> 0, favorites |-> 0,
                                        folders |-> 0]),
                                StoredConfig(Complete, "sync", e, k)))
  /\ used = NoneUsed
  /\ now = At(0, 8, 0)
  /\ tz = 0
  /\ codec = NoCodec
  /\ operationState = FreshOperationState
  /\ lane = IdleLane("sync")

NextData ==
  \/ \E direction \in {"none", "pull"} : PerformSync(TRUE, direction)
  \/ SyncStep
  \/ \E ls \in Edits(localStorage) : EditLocal(ls)
  \/ \E w \in PlainWrites(now) \cup OtherWrites(now) : ForeignWrite(w)
  \/ Advance(Instants)

SpecData == InitData /\ [][NextData]_vars

\* SpecSnap: sessions in which syncs and snapshots are requested while others
\* are in flight, under complete and incomplete credentials.
InitSnap ==
  /\ \E c \in Credentials, mode \in Modes, e \in BOOLEAN :
       Starts(loadConfiguration(Loaded([chats |-> {1}, settings |-> 0, favorites |-> 0,
                                        folders |-> 0]),
                                StoredConfig(c, mode, e, "k1")))
  /\ used = NoneUsed
  /\ now = At(0, 8, 0)
  /\ tz = 0
  /\ codec = NoCodec
  /\ operationState = FreshOperationState
  /\ lane = IdleLane("sync")

NextSnap ==
  \/ \E force \in BOOLEAN, direction \in {"none", "push", "pull"} :
       PerformSync(force, direction)
  \/ CreateSnapshot("a")
  \/ SyncStep
  \/ SnapStep({"a"})
  \/ Advance(Instants)

SpecSnap == InitSnap /\ [][NextSnap]_vars

\* SpecKeys: sessions in which snapshots are taken, also two at a time, between
\* pushes and pulls, with and without encryption.
InitKeys ==
  /\ \E e \in BOOLEAN :
       Starts(loadConfiguration(Loaded([chats |-> {1}, settings |-> 0, favorites |-> 0,
                                        folders |-> 0]),
                                StoredConfig(Complete, "sync", e, "k1")))
  /\ used = NoneUsed
  /\ now = At(0, 8, 0)
  /\ tz = 0
  /\ codec = NoCodec
  /\ operationState = FreshOperationState
  /\ lane = IdleLane("sync")

NextKeys ==
  \/ \E direction \in {"none", "push", "pull"} : PerformSync(TRUE, direction)
  \/ \E name \in SnapNames : CreateSnapshot(name)
  \/ SyncStep
  \/ SnapStep(SnapNames)
  \/ Advance(Instants)

SpecKeys == InitKeys /\ [][NextKeys]_vars

\* SpecPush: sessions in which the dataset is pushed again and again, unchanged,
\* on the same day and on the next days, with and without encryption, with
\* and without an encryption key.
PushInstants == {At(d, h, 0) : d \in 0..MaxDay, h \in {8, 9}}

InitPush ==
  /\ \E e \in BOOLEAN, k \in {"", "k1"}, ls \in LocalInits :
       Starts(loadConfiguration(Loaded(ls), StoredConfig(Complete, "sync", e, k)))
  /\ used = NoneUsed
  /\ now = At(0, 8, 0)
  /\ tz = 0
  /\ codec = NoCodec
  /\ operationState = FreshOperationState
  /\ lane = IdleLane("sync")

NextPush ==
  \/ PerformSync(TRUE, "push")
  \/ \E ok \in BOOLEAN : EncryptDone(ok)
  \/ \E ok \in BOOLEAN : UploadDone(ok)
  \/ \E ok \in BOOLEAN : MetaUploadDone(ok)
  \/ Advance(PushInstants)

SpecPush == InitPush /\ [][NextPush]_vars

\* SpecToggle: sessions that push by hand, with and without encryption, while
\* the user clicks the encryption toggle of the open settings dialog.
NextToggle ==
  \/ PerformSync(TRUE, "push")
  \/ \E ok \in BOOLEAN : EncryptDone(ok)
  \/ \E ok \in BOOLEAN : UploadDone(ok)
  \/ \E ok \in BOOLEAN : MetaUploadDone(ok)
  \/ \E checked \in BOOLEAN : ToggleEncryption(checked)
  \/ Advance(Instants)

SpecToggle == InitKeys /\ [][NextToggle]_vars

\* SpecEdit: sessions that sync again and again, with and without encryption,
\* while the user edits the dataset and no other device writes to the bucket.
NextEdit ==
  \/ PerformSync(TRUE, "none")
  \/ PushStep
  \/ \E ok \in BOOLEAN : EncryptDone(ok)
  \/ \E ls \in Edits(localStorage) : EditLocal(ls)
  \/ Advance(Instants)

SpecEdit == InitKeys /\ [][NextEdit]_vars

\* SpecPull: sessions that push and pull by hand while another device stores
\* encrypted backups beside theirs and plain ones in place of theirs, and the
\* listing fails to read the metadata of some objects.
InitPull ==
  /\ Starts(loadConfiguration(Loaded([chats |-> {1}, settings |-> 0, favorites |-> 0,
                                      folders |-> 0]),
                              StoredConfig(Complete, "sync", FALSE, "k1")))
  /\ used = NoneUsed
  /\ now = At(0, 8, 0)
  /\ tz = 0
  /\ codec = NoCodec
  /\ operationState = FreshOperationState
  /\ lane = IdleLane("sync")

NextPull ==
  \/ \E direction \in {"push", "pull"} : PerformSync(TRUE, direction)
  \/ \E ok \in BOOLEAN : UploadDone(ok)
  \/ \E ok \in BOOLEAN : MetaUploadDone(ok)
  \/ \E ok \in BOOLEAN, unreadable \in SUBSET {k \in DOMAIN bucket : k.kind = "backup"} :
       ListDone(ok, unreadable)
  \/ \E ok \in BOOLEAN, failAt \in 0..4 : DownloadDone(ok, failAt)
  \/ \E failAt \in 0..4 : DecryptDone(failAt)
  \/ \E w \in OtherWrites(now) : ForeignWrite(w)
  \/ Advance(Instants)

SpecPull == InitPull /\ [][NextPull]_vars

\* SpecSched: the settings form and the daily scheduler over the local days
\* 0..MaxDay, in every time zone of TzOffsets.  The clock is looked at at
\* 08:00, 09:00, 09:30 and 16:00 local time.
SchedInstants(z) ==
  {At(d, h, m) - z * MinutesPerHour :
     d \in 0..MaxDay, h \in {8, 9, 16}, m \in {0, 30}}
  \ {At(d, h, 30) - z * MinutesPerHour : d \in 0..MaxDay, h \in {8, 16}}

\* the forms saved: each mode, a later sync time, an incomplete configuration
Forms ==
  {Form(mode) : mode \in Modes}
  \cup {[Form("sync") EXCEPT !.syncMinute = 30], [Form("sync") EXCEPT !.bucketName = ""]}

InitSched ==
  /\ \E form \in Forms :
       Starts(saveSettings(Loaded([chats |-> {1}, settings |-> 0, favorites |-> 0,
                                   folders |-> 0]), form))
  /\ used = NoneUsed
  /\ tz \in TzOffsets
  /\ codec = NoCodec
  /\ operationState = FreshOperationState
  /\ lane = IdleLane("sync")
  /\ now = At(0, 8, 0) - tz * MinutesPerHour

NextSched ==
  \/ \E form \in Forms : SaveSettings(form)
  \/ Tick
  \/ PushStep
  \/ Advance(SchedInstants(tz))

SpecSched == InitSched /\ [][NextSched]_vars

\* SpecMode: the mode is changed in the settings form while the scheduler runs
\* and the Sync Now button is used.  One of the forms is rejected by the
\* handler (encryption switched on without a key).
ModeForms == {Form(mode) : mode \in Modes} \cup {[Form("disabled") EXCEPT !.encryptionEnabled = TRUE]}

InitMode ==
  /\ \E mode \in Modes :
       Starts(saveSettings(Loaded([chats |-> {1}, settings |-> 0, favorites |-> 0,
                                   folders |-> 0]), Form(mode)))
  /\ used = NoneUsed
  /\ now = At(0, 8, 0)
  /\ tz = 0
  /\ codec = NoCodec
  /\ operationState = FreshOperationState
  /\ lane = IdleLane("sync")

NextMode ==
  \/ \E form \in ModeForms : SaveSettings(form)
  \/ \E force \in BOOLEAN : PerformSync(force, "none")
  \/ Tick
  \/ PushStep
  \/ Advance(Instants)

SpecMode == InitMode /\ [][NextMode]_vars

\* The codec alone: a payload and a password are drawn, encryptData makes
\* the envelope, a byte of the stored envelope may be altered, and
\* decryptData opens it under some password.
Passwords == {"k1", "k2"}

RECURSIVE Payloads(_)
Payloads(n) ==
  IF n = 0 THEN {<<>>}
  ELSE Payloads(n - 1) \cup {Append(p, b) : p \in {q \in Payloads(n - 1) : Len(q) = n - 1},
                                            b \in {0, 255}}

CodecEncrypt ==
  /\ codec.pc = "plain"
  /\ \E saltSeed \in {0, 1}, ivSeed \in {0, 1} :
       codec' = [codec EXCEPT !.pc = "sealed",
                              !.envelope = encryptBytes(codec.data, codec.password,
                                                        saltSeed, ivSeed, now)]
  /\ UNCHANGED <<config, stored, syncIntervalId, isRunning, localMetadata,
                 cloudMetadata, localStorage, bucket, sync, snap, obs, used, now, tz,
                 operationState, lane>>

CodecTamper ==
  /\ codec.pc = "sealed"
  /\ codec.flipped = 0
  /\ \/ \E i \in 1..Len(codec.envelope) :           \* a byte is altered
          codec' = [codec EXCEPT !.tamper = "flip", !.flipped = i,
                                 !.envelope[i] = [@ EXCEPT !.x = TRUE]]
     \/ \E i \in 1..Len(codec.envelope) :           \* the bytes from i on are lost
          codec' = [codec EXCEPT !.tamper = "cut", !.flipped = i,
                                 !.envelope = SubSeq(@, 1, i - 1)]
     \/ codec' = [codec EXCEPT !.tamper = "version", !.flipped = LengthBytes + 1,
                               !.envelope[LengthBytes + 1] =
                                  [@ EXCEPT !.v = FormatVersion + 1]]
  /\ UNCHANGED <<config, stored, syncIntervalId, isRunning, localMetadata,
                 cloudMetadata, localStorage, bucket, sync, snap, obs, used, now, tz,
                 operationState, lane>>

CodecDecrypt ==
  /\ codec.pc = "sealed"
  /\ \E password \in Passwords :
       codec' = [codec EXCEPT !.pc = "opened", !.opener = password,
                              !.result = decryptBytes(codec.envelope, password)]
  /\ UNCHANGED <<config, stored, syncIntervalId, isRunning, localMetadata,
                 cloudMetadata, localStorage, bucket, sync, snap, obs, used, now, tz,
                 operationState, lane>>

InitCodec ==
  /\ Starts(Loaded([chats |-> {1}, settings |-> 0, favorites |-> 0, folders |-> 0]))
  /\ used = NoneUsed
  /\ now = At(0, 8, 0)
  /\ tz = 0
  /\ operationState = FreshOperationState
  /\ lane = IdleLane("sync")
  /\ \E data \in Payloads(MaxLen), password \in Passwords :
       codec = [NoCodec EXCEPT !.pc = "plain", !.data = data, !.password = password]

NextCodec == CodecEncrypt \/ CodecTamper \/ CodecDecrypt

SpecCodec == InitCodec /\ [][NextCodec]_vars

\* The operation queue of the queued variant: the sync-now button, the
\* timer, the drain loop and saveSettings.
Lane == <<config, stored, syncIntervalId, isRunning, localMetadata, cloudMetadata,
          localStorage, bucket, sync, snap, obs, used, now, tz, codec>>

Outcomes == {"ok", "failed", "timeout"}

Enqueue(name) ==
  /\ lane.calls < MaxOps
  /\ operationState' = queueOperation(operationState, name)
  /\ lane' = [lane EXCEPT !.calls = @ + 1]
  /\ UNCHANGED Lane

\* the click handler of #sync-now
SyncNow == Enqueue(IF lane.mode = "sync" THEN "manual-sync" ELSE "manual-backup")

\* the timer of the daily sync
TimerEnqueue == lane.mode # "disabled" /\ Enqueue("daily-sync")

\* the drain loop takes the head of the queue and starts it
DrainStart ==
  /\ operationState.isProcessingQueue
  /\ operationState.operationQueue # <<>>
  /\ lane.running = ""
  /\ lane' = [lane EXCEPT !.running = Head(operationState.operationQueue),
                          !.started[Head(operationState.operationQueue)] = @ + 1]
  /\ UNCHANGED <<operationState, Lane>>

\* the running operation ends: "ok", "failed", or "timeout" when its timeout
\* fired first; the loop goes on to the next entry or ends
DrainFinish(outcome) ==
  /\ lane.running # ""
  /\ operationState' =
       [operationState EXCEPT !.operationQueue = Tail(@),
                              !.isProcessingQueue = Tail(operationState.operationQueue) # <<>>,
                              !.completedOperations =
                                 IF outcome = "ok"
                                 THEN @ \cup {Head(operationState.operationQueue)} ELSE @]
  /\ lane' = [lane EXCEPT !.running = "", !.failed = @ \/ outcome # "ok"]
  /\ UNCHANGED Lane

\* an execution left behind by a reset ends
OrphanFinish(name, outcome) ==
  /\ lane.orphans[name] > 0
  /\ operationState' =
       [operationState EXCEPT !.completedOperations =
                                 IF outcome = "ok" THEN @ \cup {name} ELSE @]
  /\ lane' = [lane EXCEPT !.orphans[name] = @ - 1, !.failed = @ \/ outcome # "ok"]
  /\ UNCHANGED Lane

\* saveSettings, from "disabled" to another mode: operationState is rebuilt
\* and performFullInitialization awaited
SaveSettingsSwitch ==
  /\ lane.settings = "idle" /\ lane.mode = "disabled"
  /\ lane.saves <= MaxSaves
  /\ operationState' = FreshOperationState
  /\ lane' = [Orphaned(lane) EXCEPT !.mode = "sync", !.settings = "initializing",
                                    !.saves = @ + 1]
  /\ UNCHANGED Lane

\* performFullInitialization has ended: the queue is emptied and the drain
\* flag cleared, and downloadCloudMetadata awaited; or it threw
InitializationDone(ok) ==
  /\ lane.settings = "initializing"
  /\ IF ok
     THEN /\ operationState' = [operationState EXCEPT !.operationQueue = <<>>,
                                                      !.isProcessingQueue = FALSE]
          /\ lane' = [Orphaned(lane) EXCEPT !.settings = "deciding"]
     ELSE /\ lane' = [lane EXCEPT !.settings = "idle"]
          /\ UNCHANGED operationState
  /\ UNCHANGED Lane

\* the direction of the first sync is decided; every branch but one queues
\* "force-initial-sync"
DirectionDecided(queues) ==
  /\ lane.settings = "deciding"
  /\ operationState' = IF queues THEN queueOperation(operationState, "force-initial-sync")
                       ELSE operationState
  /\ lane' = [lane EXCEPT !.settings = "idle"]
  /\ UNCHANGED Lane

\* saveSettings to "disabled"
SaveSettingsDisable ==
  /\ lane.settings = "idle" /\ lane.mode # "disabled"
  /\ lane.saves <= MaxSaves
  /\ lane' = [lane EXCEPT !.mode = "disabled", !.saves = @ + 1]
  /\ UNCHANGED <<operationState, Lane>>

InitQueue ==
  /\ Starts(Loaded([chats |-> {1}, settings |-> 0, favorites |-> 0, folders |-> 0]))
  /\ used = NoneUsed
  /\ now = At(0, 8, 0)
  /\ tz = 0
  /\ codec = NoCodec
  /\ operationState = FreshOperationState
  /\ \E mode \in {"disabled", "sync"} : lane = IdleLane(mode)

Drains ==
  \/ DrainStart
  \/ \E outcome \in Outcomes : DrainFinish(outcome)
  \/ \E name \in OpNames, outcome \in Outcomes : OrphanFinish(name, outcome)

NextQueue ==
  \/ SyncNow
  \/ TimerEnqueue
  \/ Drains
  \/ SaveSettingsSwitch
  \/ \E ok \in BOOLEAN : InitializationDone(ok)
  \/ \E queues \in BOOLEAN : DirectionDecided(queues)
  \/ SaveSettingsDisable

SpecQueue == InitQueue /\ [][NextQueue]_vars

\* The drain loop is one async function: its continuation runs as soon as
\* the operation it awaits has ended, and the timeout ends every operation.
SpecQueueFair == SpecQueue /\ WF_vars(Drains)

----------------------------------------------------------------------------
(* Properties *)

\* metadata objects with n chats and timestamp t
LocalOf(t, n) == LocalMeta(AppData(Fields, 1..n, 0, 0, 0, t), t)
CloudOf(t, n) == Json("app", AppData(Fields, 1..n, 0, 0, 0, t), 0, t, FALSE)

\* the direction as a function of the two timestamps and the two chat counts
DirectionOf(lt, ln, ct, cn) ==
  IF ct > lt /\ cn > 0 THEN "pull"
  ELSE IF lt > ct /\ ln > 0 THEN "push"
  ELSE IF cn > ln THEN "pull"
  ELSE "push"

C2_PushWithoutMetadata ==
  (sync.pc # "idle" /\ sync.via \in {"nometa", "decide"} /\ sync.metaAbsent)
    => sync.dir = "push"

\* a push of a local dataset without chats into a bucket without metadata
C2_Witness ==
  /\ sync.pc = "upload" /\ sync.via = "nometa" /\ sync.metaAbsent
  /\ MetadataKey \notin DOMAIN bucket
  /\ localItemCount(sync.localData) = 0

\* C3: at any time at most one of the operations that read or write the
\* dataset (a performSync call, a createSnapshot call) is in flight.
C3_OneInFlight == ~(sync.pc # "idle" /\ \E name \in SnapNames : snap[name].pc # "idle")

\* C4: a pull that fails leaves the chats, settings, favorites and folders in
\* localStorage and the cached local metadata as they were.
C4_FailedPullKeepsLocal ==
  [][(sync.dir = "pull" /\ sync'.pc = "idle" /\ obs'.ret = "false")
       => (localStorage' = localStorage /\ localMetadata' = localMetadata)]_vars

\* C5: the payload of a push is the dataset localStorage holds when the push
\* starts.
C5_PushUploadsCurrentData ==
  [][(sync'.dir = "push" /\ sync.dir # "push")
       => \A f \in Fields : sync'.dataToSync.app[f] = localStorage[f]]_vars

\* C6: in sync mode with a complete configuration, as long as no sync has
\* failed, the scheduler calls performSync at most once on a calendar day,
\* and never before the configured syncHour:syncMinute of the local time.
C6_OncePerDay ==
  /\ (config.syncMode = "sync" /\ isGcsConfigured(config) /\ used.saves = 0
        /\ obs.ret # "false")
       => \A d \in DOMAIN obs.trigs : obs.trigs[d] <= 1
  /\ TickFires(Cur, now, tz) =>
       LocalHours(now, tz) * MinutesPerHour + LocalMinutes(now)
         >= config.syncHour * MinutesPerHour + config.syncMinute

\* C7: lastSyncDate changes only when a scheduled sync has returned true; when
\* a scheduled sync returns false, lastSyncDate stays as it was.
C7_StampOnlyOnSuccess ==
  [][/\ config'.lastSyncDate # config.lastSyncDate => obs'.ret = "true"
     /\ (sync.caller = "tick" /\ sync'.pc = "idle" /\ obs'.ret = "false")
          => config'.lastSyncDate = config.lastSyncDate]_vars

\* C8: in backup mode a sync started by the scheduler pushes: it never starts
\* a pull and no step of it changes the dataset in localStorage.
C8_BackupOnlyPushes ==
  [][(config.syncMode = "backup" /\ (sync.caller = "tick" \/ sync'.caller = "tick"))
       => (sync'.dir # "pull" /\ localStorage' = localStorage)]_vars

\* a scheduled push in backup mode while the metadata in the bucket, compared
\* with the local metadata, asks for a pull
C8_Witness ==
  /\ config.syncMode = "backup" /\ sync.caller = "tick" /\ sync.dir = "push"
  /\ MetadataKey \in DOMAIN bucket
  /\ SyncDirection(sync.localData, bucket[MetadataKey].data.json) = "pull"

\* what performSync(options) would do now
UnforcedNow == performSync(Cur, "manual", FALSE, "none", now)
ForcedNow == performSync(Cur, "manual", TRUE, "none", now)

C10_FailFast ==
  ~isGcsConfigured(config) =>
    /\ sync.pc = "idle" /\ \A name \in SnapNames : snap[name].pc = "idle"
    /\ DOMAIN bucket = {}
    /\ localMetadata = NullLocal /\ cloudMetadata = NullJson
    /\ config.lastSyncTime = 0 /\ config.lastSyncDate = NoDate
    /\ obs.ret # "true" /\ obs.snapRet # "ok"


\* the performSync call in flight returns in this step
SyncEnds == sync.pc # "idle" /\ sync'.pc = "idle"

\* the push in flight completes in this step: its backup object and the
\* metadata object are in the bucket and the cloud metadata cache holds its
\* payload
PushCompletes ==
  /\ sync.dir = "push" /\ sync.pc = "metaUpload"
  /\ sync.key \in DOMAIN bucket' /\ MetadataKey \in DOMAIN bucket'
  /\ bucket'[MetadataKey].data = EncodeJson(sync.dataToSync)
  /\ cloudMetadata' = sync.dataToSync

\* the pull in flight completes in this step: the dataset of the restored
\* document is in localStorage and in both caches
PullCompletes ==
  /\ sync.dir = "pull" /\ sync.pc \in {"download", "decrypt"}
  /\ cloudMetadata'.kind = "app"
  /\ localMetadata'.data = cloudMetadata'.app
  /\ \A f \in cloudMetadata'.app.has : localStorage'[f] = cloudMetadata'.app[f]

\* C11: performSync returns true exactly when the transfer it selected has
\* completed, and false otherwise; lastSyncTime is set and stored in the true
\* case only; with direction push or pull that transfer is the one started,
\* whatever the metadata are.
C11_ReturnValue ==
  /\ [][/\ (SyncEnds /\ obs'.ret = "true")
             => /\ PushCompletes \/ PullCompletes
                /\ config'.lastSyncTime = now /\ stored'.cfg.lastSyncTime = now
        /\ (SyncEnds /\ obs'.ret # "true")
             => /\ obs'.ret = "false"
                /\ cloudMetadata' = cloudMetadata
                /\ config'.lastSyncTime = config.lastSyncTime
                /\ stored'.cfg.lastSyncTime = stored.cfg.lastSyncTime
        /\ (sync.pc = "idle" /\ sync'.pc = "idle" /\ obs'.ret # obs.ret)
             => obs'.ret = "false"
        /\ config'.lastSyncTime # config.lastSyncTime => (SyncEnds /\ obs'.ret = "true")
       ]_vars
  /\ [](\A d \in {"push", "pull"} :
          ~Rejected(Cur, TRUE) =>
            LET r == performSync(Cur, "manual", TRUE, d, now)
            IN  r.sync.pc # "idle" /\ r.sync.dir = d /\ r.sync.via = "forced")

\* a pull asked for by the caller is downloading while the cached metadata,
\* compared, would have chosen a push
C11_Witness ==
  /\ sync.via = "forced" /\ sync.dir = "pull" /\ sync.pc = "download"
  /\ cloudMetadata.kind # "null"
  /\ SyncDirection(sync.localData, cloudMetadata) = "push"


\* C12: a snapshot object, once in the bucket, is never changed or removed;
\* objects named typingmind-snapshot-... are written by createSnapshot only;
\* pullFromCloud never downloads one.
C12_SnapshotKept ==
  [][/\ \A k \in DOMAIN bucket :
          k.kind = "snapshot" => (k \in DOMAIN bucket' /\ bucket'[k] = bucket[k])
     /\ \A k \in DOMAIN bucket' \ DOMAIN bucket :
          k.kind = "snapshot" =>
            \E name \in SnapNames : snap[name].pc = "upload" /\ snap[name].key = k
     /\ sync'.pc = "download" => sync'.key.kind = "backup"]_vars


\* the document in an object of the bucket, decoded (and decrypted)
Decoded(o) == o.data.json

\* the backup objects in the bucket
Backups == {k \in DOMAIN bucket : k.kind = "backup"}

\* a push stores its backup object in this step, after an earlier push
SecondPushStores ==
  /\ sync.dir = "push" /\ sync.pc = "upload" /\ sync'.pc = "metaUpload"
  /\ Backups # {}

\* C13 as stated: a push that follows another one, the local data unchanged,
\* stores a backup object distinct from the objects stored before, and the
\* document in it is the document in those.
C13_TwoObjects ==
  [][SecondPushStores =>
       /\ sync.key \notin DOMAIN bucket
       /\ \A k \in Backups : Decoded(bucket[k]) = Decoded(bucket'[sync.key])]_vars

\* C13, amended: a push stores the object named by the UTC date at which it
\* names it, so pushes of one date store one object and the bucket holds at
\* most one backup object for each date; with the local data unchanged the
\* documents of all backup objects hold the same dataset and the same local
\* timestamp (they may differ in their own timestamp).
C13_OneObjectPerDate ==
  /\ [](/\ Cardinality(Backups) <= IsoDate(now) + 1
        /\ \A j, k \in Backups :
             /\ Decoded(bucket[j]).app = Decoded(bucket[k]).app
             /\ Decoded(bucket[j]).mts = Decoded(bucket[k]).mts
             /\ (j.stamp = k.stamp => j = k))
  /\ [][SecondPushStores =>
         /\ bucket' = Put(bucket, sync.key, Object(sync.uploadData, sync.metadata))
         /\ sync.key.stamp <= IsoDate(now)
         /\ (sync.key \in DOMAIN bucket <=>
               \E k \in Backups : k.stamp = sync.key.stamp)]_vars

\* two pushes on one date have left one backup object, whose document is the
\* second push's, and a push on the next date has stored a second object
C13_Witness ==
  /\ Cardinality(Backups) = 2
  /\ \E j, k \in Backups :
       /\ j.stamp < k.stamp
       /\ Decoded(bucket[j]).timestamp > At(j.stamp, 8, 0)
       /\ Decoded(bucket[j]).timestamp # Decoded(bucket[k]).timestamp


\* where the ciphertext and its tag begin in an envelope of encryptBytes
CiphertextOffset == LengthBytes + Len(HeaderNames) + SaltSize + IvSize

\* C14: an envelope made by encryptData from payload P under password K,
\* stored unaltered and opened by decryptData under the same K, gives back
\* exactly the bytes of P.
C14_RoundTrip ==
  (codec.pc = "opened" /\ codec.opener = codec.password /\ codec.flipped = 0)
    => codec.result = Decrypted(codec.data)

C14_Witness ==
  /\ codec.pc = "opened" /\ codec.opener = codec.password /\ codec.flipped = 0
  /\ Len(codec.data) = MaxLen
  /\ codec.result.ok

\* C15: decryptData under a password other than the one the envelope was
\* made with, and decryptData of an envelope in which one byte of the
\* ciphertext (tag included) was altered, both throw, never return data, and
\* throw the same error.
C15_SameFailure ==
  (/\ codec.pc = "opened"
   /\ \/ codec.opener # codec.password /\ codec.flipped = 0
      \/ codec.flipped > CiphertextOffset)
    => codec.result = Throws(OperationError)

C15_Witness ==
  /\ codec.pc = "opened" /\ codec.tamper = "flip"
  /\ codec.opener = codec.password
  /\ codec.flipped > CiphertextOffset /\ codec.flipped <= CiphertextOffset + Len(codec.data)
  /\ ~codec.result.ok


\* the entries of the queue that carry name n
Entries(n) ==
  Cardinality({i \in 1..Len(operationState.operationQueue) :
                 operationState.operationQueue[i] = n})

\* the operations executing now
Executing == {n \in OpNames : lane.running = n \/ lane.orphans[n] > 0}

\* C16: an operation is never pending or running twice under one name: a
\* name has at most one instance among the entries of the queue and the
\* executions in flight.
C16_OneInstance ==
  \A n \in OpNames : Entries(n) + lane.orphans[n] <= 1

\* C17: at most one operation executes at a time, the operation started is
\* always the oldest entry of the queue, and a name enters the completed-set
\* when, and only when, an execution of that operation ends in success.
C17_SerialFifo ==
  /\ [](\A m, n \in Executing : m = n /\ lane.orphans[n] + Entries(n) <= 1)
  /\ [][lane'.running \notin {"", lane.running}
         => lane'.running = Head(operationState.operationQueue)]_vars
  /\ [][\A n \in OpNames :
          (n \in operationState'.completedOperations
             /\ n \notin operationState.completedOperations)
          => /\ n \in Executing
             /\ ~lane'.failed \/ lane.failed
             /\ lane'.running = "" \/ lane'.orphans[n] < lane.orphans[n]]_vars

C19_RunningFlag ==
  /\ isRunning <=> sync.pc # "idle"
  /\ sync.pc = "idle" =>
       \A force \in BOOLEAN :
         Rejected(Cur, force)
           <=> (~isGcsConfigured(config) \/ (config.syncMode = "disabled" /\ ~force))

\* a performSync body has failed and returned false, and the flag is clear
C19_Witness ==
  /\ sync.pc = "idle" /\ obs.ret = "false" /\ ~isRunning
  /\ isGcsConfigured(config) /\ config.syncMode # "disabled"


\* C20: a sync goes the way of "no cloud metadata exists" only when the
\* object typingmind-metadata.json does not exist: a download or a decoding
\* of it that fails is never taken for its absence.
C20_AbsenceOnly ==
  (sync.pc # "idle" /\ sync.via = "nometa") => sync.metaAbsent


\* C21: while no sync is in flight, a cached local metadata object holds the
\* dataset that localStorage holds, and, as long as nobody else has written
\* to the bucket, a cached cloud metadata object is the document stored as
\* typingmind-metadata.json.
C21_CachesFresh ==
  sync.pc = "idle" =>
    /\ localMetadata.kind # "null" =>
         \A f \in Fields : f \in localMetadata.data.has
                            /\ localMetadata.data[f] = localStorage[f]
    /\ (cloudMetadata.kind # "null" /\ used.foreign = 0) =>
         /\ MetadataKey \in DOMAIN bucket
         /\ bucket[MetadataKey].data = EncodeJson(cloudMetadata)


\* the object stored under name k, NoObjMeta-and-null when there is none
Stored(b, k) == IF k \in DOMAIN b THEN b[k] ELSE Object(EncodeJson(NullJson), NoObjMeta)

\* C22: in a step of a push (nobody else writing), typingmind-metadata.json
\* changes only when the backup object has been uploaded (and, unless
\* another device has replaced it since, is in the bucket), the cached cloud
\* metadata changes only in the step in which the upload of
\* typingmind-metadata.json succeeds, and becomes its content; and a push
\* that ends before its upload has begun leaves the bucket and the cached
\* cloud metadata as they were.
C22_BackupThenMetadata ==
  [][(used' = used) =>
       /\ (sync.dir = "push"
             /\ Stored(bucket', MetadataKey) # Stored(bucket, MetadataKey))
            => /\ sync.pc = "metaUpload"
               /\ used.foreign = 0
                    => Stored(bucket, sync.key).data.json = sync.dataToSync
       /\ (sync.dir = "push" /\ cloudMetadata' # cloudMetadata)
            => /\ sync.pc = "metaUpload"
               /\ Stored(bucket', MetadataKey).data = EncodeJson(cloudMetadata')
       /\ (sync.pc \in {"idle", "encrypt"} /\ sync'.pc = "idle")
            => (bucket' = bucket /\ cloudMetadata' = cloudMetadata)]_vars

\* a push has stored the backup and the metadata object and returned true
C22_Witness ==
  /\ sync.pc = "idle" /\ obs.ret = "true" /\ used.foreign = 0
  /\ cloudMetadata.kind = "meta"
  /\ Stored(bucket, MetadataKey).data = EncodeJson(cloudMetadata)
  /\ \E k \in DOMAIN bucket : k.kind = "backup" /\ bucket[k].data.json = cloudMetadata


\* a push has failed for want of an encryption key
C22_KeylessWitness ==
  /\ config.encryptionEnabled /\ config.encryptionKey = ""
  /\ obs.ret = "false" /\ DOMAIN bucket = {}


\* the backups a listing can return for the bucket as it is
Listings ==
  {Listing(unreadable) : unreadable \in SUBSET {k \in DOMAIN bucket : k.kind = "backup"}}

C24_NameMatchesPayload ==
  \A k \in DOMAIN bucket :
    k.kind = "backup" =>
      /\ k.ext = (IF bucket[k].data.enc THEN ".dat" ELSE ".json")
      /\ bucket[k].metadata.encrypted = BoolString(bucket[k].data.enc)


C26_WireLayout ==
  (codec.pc = "sealed" /\ codec.tamper = "none") =>
    LET e == codec.envelope
        headerLength == Len(HeaderNames)
        saltOffset == LengthBytes + getUint32(e)
        ivOffset == saltOffset + e[LengthBytes + 5].v
        dataOffset == ivOffset + e[LengthBytes + 6].v
        salt == SubSeq(e, saltOffset + 1, ivOffset)
        iv == SubSeq(e, ivOffset + 1, dataOffset)
    IN  /\ e[1].v = headerLength /\ \A i \in 2..LengthBytes : e[i].v = 0
        /\ \A i \in 1..headerLength : e[LengthBytes + i].t = HeaderNames[i]
        /\ e[LengthBytes + 1].v = 1
        /\ e[LengthBytes + 5].v = 16 /\ e[LengthBytes + 6].v = 12
        /\ Len(e) = 4 + headerLength + 16 + 12 + (Len(codec.data) + 16)
        /\ saltOffset = 4 + headerLength /\ Len(salt) = 16 /\ Len(iv) = 12
        /\ \E saltSeed \in {0, 1}, ivSeed \in {0, 1} :
             /\ salt = getRandomBytes(16, saltSeed)
             /\ iv = getRandomBytes(12, ivSeed)
        /\ SubSeq(e, dataOffset + 1, Len(e))
             = Sealed(deriveKey(codec.password, salt, Iterations), iv, codec.data)

\* an envelope of a payload of MaxLen bytes whose salt and IV differ
C26_Witness ==
  /\ codec.pc = "sealed" /\ codec.tamper = "none"
  /\ Len(codec.data) = MaxLen
  /\ codec.envelope[CiphertextOffset - IvSize].v # codec.envelope[CiphertextOffset].v


\* C27: with no write by another device, a pull whose download, decryption
\* under the key of the push and localStorage writes all succeed, of a backup
\* object that a completed push of this engine stored, returns true and leaves the
\* chats, settings, favorites and folders equal to the dataset that push
\* uploaded.
C27_RoundTrip ==
  [][LET pushed == bucket[sync.key].data
         restores == \/ DownloadDone(TRUE, 4) /\ ~pushed.enc
                     \/ DecryptDone(4) /\ CanDecrypt(pushed, sync.encryptionKey)
     IN  (/\ sync.dir = "pull" /\ sync.pc \in {"download", "decrypt"}
          /\ used.foreign = 0
          /\ sync.key \in DOMAIN bucket /\ sync.key.kind = "backup"
          /\ MetadataKey \in DOMAIN bucket
          /\ restores)
           => /\ obs'.ret = "true"
              /\ \A f \in Fields : localStorage'[f] = pushed.json.app[f]]_vars


\* C28: in sync mode, while no other device has written to the bucket, a
\* performSync that chooses its direction itself never pulls, also after the
\* dataset was edited following a successful sync; the dataset in
\* localStorage changes only by the user's edits, never by a restore of a
\* copy this engine pushed.
C28_NoPullOfOwnCopy ==
  /\ []((used.foreign = 0 /\ config.syncMode = "sync" /\ sync.via # "forced")
          => (sync.dir # "pull" /\ sync.pc \notin {"list", "download", "decrypt"}))
  /\ [][(used.foreign = 0 /\ localStorage' # localStorage)
          => used'.edits = used.edits + 1]_vars

\* a sync decides to push although the cloud copy it compares with, pushed
\* by an earlier successful sync, is newer than the cached local metadata,
\* and the dataset was edited after that sync
C28_Witness ==
  /\ used.foreign = 0 /\ config.syncMode = "sync"
  /\ sync.via = "decide" /\ sync.dir = "push" /\ sync.pc # "idle"
  /\ cloudMetadata.kind = "meta" /\ MetadataKey \in DOMAIN bucket
  /\ cloudMetadata.timestamp > localMetadata.timestamp
  /\ \E f \in Fields : localStorage[f] # cloudMetadata.app[f]


\* C29: when a pull returns true, each of the chats, settings, favorites and
\* folders in localStorage equals that collection of the backup document
\* restored, a collection the backup lacks or holds empty included.
C29_PullRestoresAll ==
  [][LET restored == IF sync.pc = "download" THEN bucket[sync.key].data.json
                     ELSE sync.uploadData.json
     IN  (/\ sync.dir = "pull" /\ sync.pc \in {"download", "decrypt"}
          /\ sync.pc = "download" => sync.key \in DOMAIN bucket
          /\ sync'.pc = "idle" /\ obs'.ret = "true")
           => \A f \in Fields : localStorage'[f] = restored.app[f]]_vars


\* C30: the drain loop never starts an operation while an operation that
\* was in flight when saveSettings reset the queue state is still executing.
C30_ResetKeepsSingleFlight ==
  [][(lane.running = "" /\ lane'.running # "")
       => \A n \in OpNames : lane.orphans[n] = 0]_vars

====
